---- MODULE Spec2Model ----
(***************************************************************************)
(* A model of the core of the integration relay:                           *)
(*   - shared/sessions.py   SessionStorage (session id -> tenant UUID)     *)
(*   - shared/tokens.py     TokenStorage   (encrypted credential vault)    *)
(*   - shared/utils.py      generate_state_token / validate_state_token    *)
(*   - digitalocean_integration/{utils,spaces}.py  the sync-dedup gate     *)
(*                                                                         *)
(* Python's Optional[T] is modelled as a sequence of length at most one:   *)
(* None is <<>> and a present value x is <<x>>.  Python strings that the   *)
(* code inspects character by character (state tokens) are sequences of    *)
(* one-character symbols; opaque strings (session ids, tenant UUIDs,       *)
(* storage keys) are numbered 1..N, and 0 stands for the empty string.     *)
(***************************************************************************)
EXTENDS Integers, Sequences, FiniteSets, TLC

VARIABLES
    sessions,     \* sessions table: session id -> Optional ciphertext of the uuid
    issued,       \* session ids returned so far by generate_session_id
    minted,       \* tenant UUIDs returned so far by uuid.uuid4
    root,         \* history: session id -> the tenant bound when its chain started
    rotated,      \* history: session ids consumed by a rotation
    ret           \* outcome of the last SessionStorage call

sessionVars == <<sessions, issued, minted, root, rotated, ret>>

VARIABLES
    now,          \* int(time.time()), the wall clock
    gen,          \* Optional: the arguments and result of the last generate_state_token
    state,        \* the token string carried by the `state` query parameter
    vres          \* outcome of validate_state_token(state) at the current time

tokenVars == <<now, gen, state, vres>>

VARIABLES
    tokens,       \* tokens table: key -> Optional [value: ciphertext, type: tag]
    written,      \* history: key -> Optional [value, type, store] of the last put not deleted since
    tret          \* outcome of the last TokenStorage call

storeVars == <<tokens, written, tret>>

VARIABLES
    bucket,       \* the Spaces bucket: object key -> Optional body (JSON text)
    sret          \* outcome of the last sync attempt

syncVars == <<bucket, sret>>

VARIABLES
    db,           \* the database file two concurrent handlers write to
    puts,         \* handler -> the position of its store_token / store_uuid call
    lock          \* Optional: the handler whose connection holds the write lock

putVars == <<db, puts, lock>>

VARIABLES
    environ,      \* Optional: the value of STATE_TOKEN_SECRET in os.environ
    built         \* module-level storage object -> how its construction ended

bootVars == <<environ, built>>

VARIABLES
    reqs,         \* request handler -> the position of its route and its locals
    links,        \* the state tokens handed out in redirects
    jar,          \* the session ids handed out in session_id cookies
    spent         \* history: the state tokens a completed callback has presented

routeVars == <<reqs, links, jar, spent>>

VARIABLES
    syncs         \* caller -> the position of its sync attempt and its locals

raceVars == <<syncs>>

VARIABLES
    refresh       \* Optional: the last document refresh of facebook_webhook

hookVars == <<refresh>>

vars == <<sessionVars, tokenVars, storeVars, syncVars, putVars, bootVars, routeVars,
          raceVars, hookVars>>

\* what the calls on one component leave alone
outsideSession == <<tokenVars, storeVars, syncVars, putVars, bootVars, routeVars, raceVars,
                hookVars>>
outsideToken == <<sessionVars, storeVars, syncVars, putVars, bootVars, routeVars, raceVars,
                hookVars>>
outsideStore == <<sessionVars, tokenVars, syncVars, putVars, bootVars, routeVars, raceVars,
                hookVars>>
outsideSync == <<sessionVars, tokenVars, storeVars, putVars, bootVars, routeVars, raceVars,
                hookVars>>
outsidePut == <<issued, minted, root, rotated, ret, tokenVars, written, tret, syncVars,
                bootVars, routeVars, raceVars,
                hookVars>>
outsideBoot == <<sessionVars, tokenVars, storeVars, syncVars, putVars, routeVars, raceVars,
                hookVars>>
outsideRoute == <<ret, tokenVars, storeVars, syncVars, putVars, bootVars, raceVars,
                hookVars>>
outsideHook == <<sessionVars, tokenVars, written, tret, syncVars, putVars, bootVars,
                 routeVars, raceVars>>
outsideRace == <<sessionVars, tokenVars, storeVars, sret, putVars, bootVars, routeVars,
                hookVars>>

None == <<>>
Some(x) == <<x>>

(***************************************************************************)
(* Bounds                                                                  *)
(***************************************************************************)
NumSessionIds == 3
NumTenants == 2
MaxTime == 2
MaxTtl == 1
MaxAge == 1
NumValues == 2
NumFieldValues == 2

SessionIds == 1..NumSessionIds
TenantIds == 1..NumTenants
EmptyStr == 0

(***************************************************************************)
(* Key derivation and Fernet (shared/sessions.py, shared/tokens.py).       *)
(* PBKDF2 with a fixed salt and iteration count is a deterministic         *)
(* function of the secret; Fernet is authenticated encryption: decrypt     *)
(* returns the plaintext only for an unaltered ciphertext made under the   *)
(* same key and raises InvalidToken otherwise.                             *)
(***************************************************************************)
EnvSecret == "STATE_TOKEN_SECRET-A"

get_fernet_key(secret) ==
    [kdf |-> "PBKDF2HMAC-SHA256", salt |-> "salt_", length |-> 32, secret |-> secret]

fernet_encrypt(key, plaintext) ==
    [key |-> key, plaintext |-> plaintext, intact |-> TRUE]

\* Some(plaintext), or None for cryptography.fernet.InvalidToken
fernet_decrypt(key, ciphertext) ==
    IF ciphertext.intact /\ ciphertext.key = key
    THEN Some(ciphertext.plaintext)
    ELSE None

\* SessionStorage.__init__: self.fernet = get_fernet_key()
session_fernet == get_fernet_key(EnvSecret)

(***************************************************************************)
(* The write loop shared by store_uuid and store_token: for _ in range(3). *)
(* outcomes[i] is what the i-th sqlite write attempt does: "ok", "locked"  *)
(* (OperationalError "database is locked") or "error" (any other           *)
(* OperationalError).                                                      *)
(***************************************************************************)
WriteAttempts == 3

Locked(n) == [i \in 1..n |-> "locked"]

\* the runs of the loop: the attempts made, in order, up to the one that ends it
AttemptOutcomes ==
    {Locked(n) \o <<last>> : n \in 0..(WriteAttempts - 1), last \in {"ok", "error"}}
        \cup {Locked(WriteAttempts)}

\* number of attempts made and how the loop ends
write_loop(outcomes) ==
    LET decisive == {i \in 1..Len(outcomes) : outcomes[i] # "locked"}
    IN  IF decisive = {}
        THEN [attempts |-> Len(outcomes), result |-> "retries_exhausted"]
        ELSE LET first == CHOOSE i \in decisive : \A j \in decisive : i <= j
             IN  [attempts |-> first, result |-> outcomes[first]]

(***************************************************************************)
(* SessionStorage                                                          *)
(***************************************************************************)
\* store_uuid whose INSERT is lost while the call returns normally
store_uuid_dropped(table, session_id, uuid, outcomes) ==
    [table |-> table, raised |-> None]

\* store_uuid that raises after its INSERT was committed
store_uuid_committed(table, session_id, uuid, outcomes) ==
    LET encrypted_uuid == fernet_encrypt(session_fernet, uuid)
        w == write_loop(outcomes)
    IN  [table |-> [table EXCEPT ![session_id] = Some(encrypted_uuid)],
         raised |-> IF w.result = "ok" THEN None
                    ELSE Some(IF w.result = "retries_exhausted"
                              THEN "Session database write failed after retries"
                              ELSE "sqlite3.OperationalError")]

\* store_uuid: [table, raised]
store_uuid(table, session_id, uuid, outcomes) ==
    LET encrypted_uuid == fernet_encrypt(session_fernet, uuid)
        w == write_loop(outcomes)
    IN  IF w.result = "ok"
        THEN [table |-> [table EXCEPT ![session_id] = Some(encrypted_uuid)],
              raised |-> None]
        ELSE [table |-> table,
              raised |-> Some(IF w.result = "retries_exhausted"
                              THEN "Session database write failed after retries"
                              ELSE "sqlite3.OperationalError")]

\* get_uuid: [value, raised]; value is Optional[uuid]
get_uuid(table, session_id) ==
    IF session_id \notin DOMAIN table \/ table[session_id] = None
    THEN [value |-> None, raised |-> None]
    ELSE LET plain == fernet_decrypt(session_fernet, table[session_id][1])
         IN  IF plain = None
             THEN [value |-> None, raised |-> Some("cryptography.fernet.InvalidToken")]
             ELSE [value |-> plain, raised |-> None]

\* a DELETE without its WHERE clause
clear_session_unfiltered(table, session_id) == [s \in DOMAIN table |-> None]

\* clear_session whose DELETE is lost
clear_session_lost(table, session_id) == table

\* clear_session: DELETE FROM sessions WHERE session_id = ?
clear_session(table, session_id) ==
    IF session_id \in DOMAIN table
    THEN [table EXCEPT ![session_id] = None]
    ELSE table

\* the rotation with the new row written under the presented id
rotate_session_samekey(table, session_id, new_session_id, user_uuid, outcomes) ==
    store_uuid(clear_session(table, session_id), session_id, user_uuid, outcomes)

\* get_or_create_session, rotation branch: clear_session(session_id), then
\* store_uuid(new_session_id, user_uuid)
rotate_session(table, session_id, new_session_id, user_uuid, outcomes) ==
    store_uuid(clear_session(table, session_id), new_session_id, user_uuid, outcomes)

\* Python truthiness of an Optional[str]: None and "" are falsy
Truthy(opt) == opt # None /\ opt[1] # EmptyStr

Cookies == {None, Some(EmptyStr)} \cup {Some(s) : s \in SessionIds}

Ret(op, arg, expected, kind, detail, sid, uuid, branch) ==
    [op |-> op, arg |-> arg, expected |-> expected, kind |-> kind,
     detail |-> detail, sid |-> sid, uuid |-> uuid, branch |-> branch]

\* get_or_create_session(session_id) with the outcomes of its write attempts
get_or_create_session(session_id, outcomes) ==
    LET looked == IF Truthy(session_id)
                  THEN get_uuid(sessions, session_id[1])
                  ELSE [value |-> None, raised |-> None]
        user_uuid == looked.value
    IN  IF looked.raised # None
        THEN /\ ret' = Ret("get_or_create_session", session_id, None, "error",
                           looked.raised[1], None, None, "lookup")
             /\ UNCHANGED <<sessions, issued, minted, root, rotated>>
        ELSE IF Truthy(user_uuid)
        THEN \* rotation: clear_session, generate_session_id, store_uuid
             \E new_session_id \in SessionIds \ issued :
                LET stored == rotate_session(sessions, session_id[1], new_session_id,
                                             user_uuid[1], outcomes)
                IN  /\ sessions' = stored.table
                    /\ issued' = issued \cup {new_session_id}
                    /\ rotated' = rotated \cup {session_id[1]}
                    /\ root' = [root EXCEPT ![new_session_id] = root[session_id[1]]]
                    /\ UNCHANGED minted
                    /\ ret' = IF stored.raised = None
                              THEN Ret("get_or_create_session", session_id, None, "ok",
                                       "", Some(new_session_id), user_uuid, "rotate")
                              ELSE Ret("get_or_create_session", session_id, None, "error",
                                       stored.raised[1], None, None, "rotate")
        ELSE \* mint: generate_session_id, uuid.uuid4, store_uuid
             \E new_session_id \in SessionIds \ issued :
             \E new_uuid \in TenantIds \ minted :
                LET stored == store_uuid(sessions, new_session_id, new_uuid, outcomes)
                IN  /\ sessions' = stored.table
                    /\ issued' = issued \cup {new_session_id}
                    /\ minted' = minted \cup {new_uuid}
                    /\ root' = [root EXCEPT ![new_session_id] = Some(new_uuid)]
                    /\ UNCHANGED rotated
                    /\ ret' = IF stored.raised = None
                              THEN Ret("get_or_create_session", session_id, None, "ok",
                                       "", Some(new_session_id), Some(new_uuid), "mint")
                              ELSE Ret("get_or_create_session", session_id, None, "error",
                                       stored.raised[1], None, None, "mint")

GetOrCreateSession ==
    /\ \E session_id \in Cookies : \E outcomes \in AttemptOutcomes :
        get_or_create_session(session_id, outcomes)
    /\ UNCHANGED outsideSession

\* a verify_session that never compares the tenant
mismatched_never(user_uuid, expected_uuid) == FALSE

\* if expected_uuid and user_uuid != expected_uuid
mismatched(user_uuid, expected_uuid) ==
    Truthy(expected_uuid) /\ user_uuid # expected_uuid

\* verify_session(session_id, expected_uuid)
verify_session(session_id, expected_uuid) ==
    /\ UNCHANGED <<sessions, issued, minted, root, rotated>>
    /\ IF ~Truthy(session_id)
       THEN ret' = Ret("verify_session", session_id, expected_uuid, "error",
                       "Missing session_id cookie", None, None, "")
       ELSE LET looked == get_uuid(sessions, session_id[1])
                user_uuid == looked.value
            IN  IF looked.raised # None
                THEN ret' = Ret("verify_session", session_id, expected_uuid, "error",
                                looked.raised[1], None, None, "")
                ELSE IF ~Truthy(user_uuid)
                THEN ret' = Ret("verify_session", session_id, expected_uuid, "error",
                                "Invalid or expired session", None, None, "")
                ELSE IF mismatched(user_uuid, expected_uuid)
                THEN ret' = Ret("verify_session", session_id, expected_uuid, "error",
                                "Mismatched session UUID", None, None, "")
                ELSE ret' = Ret("verify_session", session_id, expected_uuid, "ok",
                                "", None, user_uuid, "")

ExpectedUuids == {None, Some(EmptyStr)} \cup {Some(u) : u \in TenantIds}

VerifySession ==
    /\ \E session_id \in Cookies : \E expected_uuid \in ExpectedUuids :
        verify_session(session_id, expected_uuid)
    /\ UNCHANGED outsideSession

SessionInit ==
    /\ sessions = [s \in SessionIds |-> None]
    /\ issued = {}
    /\ minted = {}
    /\ root = [s \in SessionIds |-> None]
    /\ rotated = {}
    /\ ret = Ret("", None, None, "ok", "", None, None, "")

SessionNext ==
    \/ GetOrCreateSession
    \/ VerifySession

(***************************************************************************)
(* Stateless state-token codec (shared/utils.py).                          *)
(* A Python string is a sequence of one-character symbols.  "U+0660" is    *)
(* the single character ARABIC-INDIC DIGIT ZERO, a decimal digit for       *)
(* int() that str() never produces.                                        *)
(***************************************************************************)
Digits == <<"0", "1", "2", "3", "4", "5", "6", "7", "8", "9">>

AsciiDigit(c) == \E d \in 1..Len(Digits) : Digits[d] = c
IsDigit(c) == AsciiDigit(c) \/ c = "U+0660"
DigitValue(c) ==
    IF c = "U+0660" THEN 0 ELSE (CHOOSE d \in 1..Len(Digits) : Digits[d] = c) - 1

\* f"{n}" for an int n
RECURSIVE StrNat(_)
StrNat(n) ==
    IF n < 10 THEN <<Digits[n + 1]>>
    ELSE StrNat(n \div 10) \o <<Digits[(n % 10) + 1]>>

Str(n) == IF n < 0 THEN <<"-">> \o StrNat(-n) ELSE StrNat(n)

\* str.strip() (of the whitespace int() ignores)
RECURSIVE lstrip(_)
lstrip(s) == IF s # <<>> /\ Head(s) = " " THEN lstrip(Tail(s)) ELSE s

RECURSIVE rstrip(_)
rstrip(s) ==
    IF s # <<>> /\ s[Len(s)] = " " THEN rstrip(SubSeq(s, 1, Len(s) - 1)) ELSE s

RECURSIVE DigitsValue(_)
DigitsValue(s) ==
    IF s = <<>> THEN 0
    ELSE LET init == SubSeq(s, 1, Len(s) - 1)
             last == s[Len(s)]
         IN  IF last = "_" THEN DigitsValue(init)
             ELSE 10 * DigitsValue(init) + DigitValue(last)

\* int(s): Some(n), or None for ValueError.  Surrounding whitespace, a sign,
\* single underscores between digits and any Unicode decimal digit are accepted.
int(s) ==
    LET t == rstrip(lstrip(s))
        signed == t # <<>> /\ Head(t) \in {"+", "-"}
        body == IF signed THEN Tail(t) ELSE t
        wellformed ==
            /\ body # <<>>
            /\ \A i \in 1..Len(body) : IsDigit(body[i]) \/ body[i] = "_"
            /\ IsDigit(body[1]) /\ IsDigit(body[Len(body)])
            /\ \A i \in 1..(Len(body) - 1) : ~(body[i] = "_" /\ body[i + 1] = "_")
    IN  IF ~wellformed THEN None
        ELSE IF signed /\ Head(t) = "-" THEN Some(0 - DigitsValue(body))
        ELSE Some(DigitsValue(body))

\* s.split(":", maxsplit): at most maxsplit splits, the rest kept whole
RECURSIVE split_max(_, _)
split_max(s, maxsplit) ==
    LET colons == {i \in 1..Len(s) : s[i] = ":"}
    IN  IF colons = {} \/ maxsplit = 0 THEN <<s>>
        ELSE LET i == CHOOSE c \in colons : \A d \in colons : c <= d
             IN  <<SubSeq(s, 1, i - 1)>> \o split_max(SubSeq(s, i + 1, Len(s)), maxsplit - 1)

\* a split that stops after the fifth field
split_maxsplit(s) == split_max(s, 4)

\* s.split(":")
RECURSIVE split(_)
split(s) ==
    LET colons == {i \in 1..Len(s) : s[i] = ":"}
    IN  IF colons = {} THEN <<s>>
        ELSE LET i == CHOOSE c \in colons : \A d \in colons : c <= d
             IN  <<SubSeq(s, 1, i - 1)>> \o split(SubSeq(s, i + 1, Len(s)))

\* ":".join(fields)
RECURSIVE join(_)
join(fields) ==
    IF Len(fields) = 1 THEN fields[1]
    ELSE fields[1] \o <<":">> \o join(Tail(fields))

\* base64.urlsafe_b64encode(hmac.new(secret, payload, sha256).digest()).decode():
\* a collision-free keyed function of the payload whose text has no colon
hmac_b64(secret, payload) ==
    <<"hmac-sha256/" \o secret>> \o [i \in 1..Len(payload) |-> "#" \o payload[i]]

STATE_TOKEN_SECRET == EnvSecret

\* truthiness of an Optional[str] whose value is a character sequence
TruthyStr(opt) == opt # None /\ opt[1] # <<>>

\* generate_state_token(expiry_seconds, extra_data) at time current_time, with
\* nonce being what secrets.token_urlsafe(8) returns
generate_state_token(expiry_seconds, extra_data, current_time, nonce) ==
    LET timestamp == current_time
        expires_at == timestamp + expiry_seconds
        base == join(<<Str(timestamp), Str(expires_at), nonce>>)
        payload == IF TruthyStr(extra_data) THEN base \o <<":">> \o extra_data[1] ELSE base
        encoded_sig == hmac_b64(STATE_TOKEN_SECRET, payload)
    IN  IF ~TruthyStr(extra_data)
        THEN join(<<Str(timestamp), Str(expires_at), nonce, encoded_sig>>)
        ELSE join(<<Str(timestamp), Str(expires_at), nonce, extra_data[1], encoded_sig>>)

\* a comparison that only looks at the lengths
compare_digest_length(a, b) == Len(a) = Len(b)

\* hmac.compare_digest(a, b)
compare_digest(a, b) == a = b

\* the age check without abs()
too_old_signed(current_time, timestamp, max_age) ==
    current_time - timestamp > max_age

\* abs(current_time - timestamp) > max_age
too_old(current_time, timestamp, max_age) ==
    (IF current_time >= timestamp
     THEN current_time - timestamp
     ELSE timestamp - current_time) > max_age

Rejected(detail) == [kind |-> "error", detail |-> detail, value |-> None]

\* validate_state_token(state_token, max_age) at time current_time:
\* the returned extra_data, or the detail of the HTTPException raised
validate_state_token(state_token, max_age, current_time) ==
    LET parts == split(state_token)
        n == Len(parts)
    IN  IF n # 4 /\ n # 5 THEN Rejected("Malformed state token")
        ELSE
        LET timestamp_str == parts[1]
            expires_at_str == parts[2]
            nonce == parts[3]
            extra_data == IF n = 5 THEN Some(parts[4]) ELSE None
            provided_sig == parts[n]
            timestamp == int(timestamp_str)
            expires_at == int(expires_at_str)
        IN  IF timestamp = None \/ expires_at = None
            THEN Rejected("Malformed state token")
            ELSE IF current_time > expires_at[1]
            THEN Rejected("Expired state token")
            ELSE IF too_old(current_time, timestamp[1], max_age)
            THEN Rejected("Token age exceeds maximum allowed")
            ELSE
            LET base == join(<<Str(timestamp[1]), Str(expires_at[1]), nonce>>)
                payload == IF TruthyStr(extra_data)
                           THEN base \o <<":">> \o extra_data[1]
                           ELSE base
                expected_sig_encoded == hmac_b64(STATE_TOKEN_SECRET, payload)
            IN  IF "U+0660" \in {provided_sig[i] : i \in 1..Len(provided_sig)}
                THEN Rejected("TypeError")
                ELSE IF ~compare_digest(provided_sig, expected_sig_encoded)
                THEN Rejected("Invalid state token")
                ELSE [kind |-> "ok", detail |-> "", value |-> extra_data]

Times == 0..MaxTime
ExpirySeconds == 0..MaxTtl
MaxAges == 0..MaxAge
Nonces == {<<"a">>, <<"b", "a">>}
ExtraData == {None, Some(<<>>), Some(<<"a">>), Some(<<"b">>), Some(<<"a", ":", "b">>)}
TamperChars == {"0", "1", "U+0660", "+", ":", "a", "b"}

NotValidated == [kind |-> "", detail |-> "", value |-> None, max_age |-> 0]

\* a login start: the handler builds the redirect with a fresh state token
GenerateStateToken ==
    /\ UNCHANGED outsideToken
    /\ \E expiry_seconds \in ExpirySeconds : \E extra_data \in ExtraData : \E nonce \in Nonces :
        LET token == generate_state_token(expiry_seconds, extra_data, now, nonce)
        IN  /\ gen' = Some([token |-> token, extra_data |-> extra_data,
                            expiry_seconds |-> expiry_seconds, timestamp |-> now,
                            nonce |-> nonce])
            /\ state' = token
            /\ vres' = NotValidated
            /\ UNCHANGED now

\* the wall clock reads another value
ClockSet ==
    /\ UNCHANGED outsideToken
    /\ \E t \in Times \ {now} :
        /\ now' = t
        /\ vres' = NotValidated
        /\ UNCHANGED <<gen, state>>

\* the fields of a token string as index ranges: <<first, last>> per field
RECURSIVE FieldSpans(_, _)
FieldSpans(s, from) ==
    LET colons == {i \in from..Len(s) : s[i] = ":"}
    IN  IF colons = {} THEN << <<from, Len(s)>> >>
        ELSE LET i == CHOOSE c \in colons : \A d \in colons : c <= d
             IN  << <<from, i - 1>> >> \o FieldSpans(s, i + 1)

\* the positions of the generated token that belong to issued_at, expires_at,
\* the nonce and the payload (everything but the separators of the first
\* three fields and the signature)
TamperablePositions(g) ==
    LET spans == FieldSpans(g.token, 1)
        sigStart == spans[Len(spans)][1]
        head == {i \in 1..3 : TRUE}
    IN  {p \in 1..(sigStart - 2) :
            \/ \E f \in head : spans[f][1] <= p /\ p <= spans[f][2]
            \/ (TruthyStr(g.extra_data) /\ p >= spans[4][1])}

\* the client returns the token with one character replaced
TamperState ==
    /\ UNCHANGED outsideToken
    /\ gen # None
    /\ state = gen[1].token
    /\ \E p \in TamperablePositions(gen[1]) : \E c \in TamperChars \ {state[p]} :
        /\ state' = [state EXCEPT ![p] = c]
        /\ vres' = NotValidated
        /\ UNCHANGED <<now, gen>>

\* the client returns a 4-field token with an empty payload field inserted
\* before the signature
InsertEmptyField ==
    /\ UNCHANGED outsideToken
    /\ gen # None
    /\ state = gen[1].token
    /\ Len(split(state)) = 4
    /\ LET parts == split(state)
       IN  state' = join(<<parts[1], parts[2], parts[3], <<>>, parts[4]>>)
    /\ vres' = NotValidated
    /\ UNCHANGED <<now, gen>>

\* the OAuth callback validates the state parameter
ValidateStateToken ==
    /\ UNCHANGED outsideToken
    /\ gen # None
    /\ \E max_age \in MaxAges :
        LET r == validate_state_token(state, max_age, now)
        IN  vres' = [kind |-> r.kind, detail |-> r.detail, value |-> r.value,
                     max_age |-> max_age]
    /\ UNCHANGED <<now, gen, state>>

TokenInit ==
    /\ now = 0
    /\ gen = None
    /\ state = <<>>
    /\ vres = NotValidated

TokenNext ==
    \/ GenerateStateToken
    \/ ClockSet
    \/ TamperState
    \/ InsertEmptyField
    \/ ValidateStateToken

(***************************************************************************)
(* TokenStorage (shared/tokens.py).  Every module that needs the vault      *)
(* constructs its own TokenStorage over the same database file; the key of  *)
(* an instance is derived from the secret its process was started with.     *)
(***************************************************************************)
OtherSecret == "STATE_TOKEN_SECRET-B"

Stores == {"routes", "utils", "rekeyed"}

\* os.getenv("STATE_TOKEN_SECRET") when the instance was constructed
StoreSecret(store) == IF store = "rekeyed" THEN OtherSecret ELSE EnvSecret

\* TokenStorage.__init__: self.fernet = get_fernet_key()
store_fernet(store) == get_fernet_key(StoreSecret(store))

Keys == {"FACEBOOK_ACCESS_TOKEN_1", "PAGE_UUID_1"}
Values == 1..NumValues
Types == {"token", "uuid"}

\* store_token that keeps an existing row (INSERT OR IGNORE)
store_token_ignore(table, fernet, key, value, type, outcomes) ==
    LET encrypted_value == fernet_encrypt(fernet, value)
        w == write_loop(outcomes)
    IN  IF w.result = "ok"
        THEN [table |-> IF table[key] = None
                        THEN [table EXCEPT ![key] = Some([value |-> encrypted_value,
                                                          type |-> type])]
                        ELSE table,
              raised |-> None]
        ELSE [table |-> table, raised |-> Some("sqlite3.OperationalError")]

\* store_token: [table, raised]
store_token(table, fernet, key, value, type, outcomes) ==
    LET encrypted_value == fernet_encrypt(fernet, value)
        w == write_loop(outcomes)
    IN  IF w.result = "ok"
        THEN [table |-> [table EXCEPT ![key] = Some([value |-> encrypted_value,
                                                     type |-> type])],
              raised |-> None]
        ELSE [table |-> table,
              raised |-> Some(IF w.result = "retries_exhausted"
                              THEN "Database write failed after retries"
                              ELSE "sqlite3.OperationalError")]

\* get_token that treats an undecryptable row as a missing one
get_token_swallow(table, fernet, key) ==
    IF table[key] = None
    THEN [value |-> None, raised |-> None]
    ELSE [value |-> fernet_decrypt(fernet, table[key][1].value), raised |-> None]

\* get_token: [value, raised]; value is Optional[plaintext]
get_token(table, fernet, key) ==
    IF table[key] = None
    THEN [value |-> None, raised |-> None]
    ELSE LET plain == fernet_decrypt(fernet, table[key][1].value)
         IN  IF plain = None
             THEN [value |-> None, raised |-> Some("cryptography.fernet.InvalidToken")]
             ELSE [value |-> plain, raised |-> None]

\* a listing that selects every row, whatever its type
get_all_tokens_by_type_untyped(table, fernet, type) ==
    LET results == {k \in Keys : table[k] # None}
        undecryptable == {k \in results : fernet_decrypt(fernet, table[k][1].value) = None}
    IN  IF undecryptable # {}
        THEN [listing |-> {}, raised |-> Some("cryptography.fernet.InvalidToken")]
        ELSE [listing |-> {<<k, fernet_decrypt(fernet, table[k][1].value)[1]>> : k \in results},
              raised |-> None]

\* get_all_tokens_by_type: [listing, raised]; listing is the dict as a set of
\* <<key, plaintext>> pairs
get_all_tokens_by_type(table, fernet, type) ==
    LET results == {k \in Keys : table[k] # None /\ table[k][1].type = type}
        undecryptable == {k \in results : fernet_decrypt(fernet, table[k][1].value) = None}
    IN  IF undecryptable # {}
        THEN [listing |-> {}, raised |-> Some("cryptography.fernet.InvalidToken")]
        ELSE [listing |-> {<<k, fernet_decrypt(fernet, table[k][1].value)[1]>> : k \in results},
              raised |-> None]

\* a DELETE without its WHERE clause
delete_token_unfiltered(table, key) == [k \in DOMAIN table |-> None]

\* delete_token: DELETE FROM tokens WHERE key = ?
delete_token(table, key) == [table EXCEPT ![key] = None]

TRet(op, store, key, kind, detail, value, listing) ==
    [op |-> op, store |-> store, key |-> key, kind |-> kind, detail |-> detail,
     value |-> value, listing |-> listing]

StoreToken ==
    /\ UNCHANGED outsideStore
    /\ \E store \in Stores : \E key \in Keys : \E value \in Values : \E type \in Types :
       \E outcomes \in AttemptOutcomes :
        LET r == store_token(tokens, store_fernet(store), key, value, type, outcomes)
        IN  /\ tokens' = r.table
            /\ written' = IF r.raised = None
                          THEN [written EXCEPT ![key] =
                                   Some([value |-> value, type |-> type,
                                         store |-> store])]
                          ELSE written
            /\ tret' = IF r.raised = None
                       THEN TRet("store_token", store, key, "ok", "", None, {})
                       ELSE TRet("store_token", store, key, "error", r.raised[1], None, {})

GetToken ==
    /\ UNCHANGED outsideStore
    /\ \E store \in Stores : \E key \in Keys :
        LET r == get_token(tokens, store_fernet(store), key)
        IN  /\ tret' = IF r.raised = None
                       THEN TRet("get_token", store, key, "ok", "", r.value, {})
                       ELSE TRet("get_token", store, key, "error", r.raised[1], None, {})
            /\ UNCHANGED <<tokens, written>>

GetAllTokensByType ==
    /\ UNCHANGED outsideStore
    /\ \E store \in Stores : \E type \in Types :
        LET r == get_all_tokens_by_type(tokens, store_fernet(store), type)
        IN  /\ tret' = IF r.raised = None
                       THEN TRet("get_all_tokens_by_type", store, type, "ok", "", None, r.listing)
                       ELSE TRet("get_all_tokens_by_type", store, type, "error", r.raised[1],
                                 None, {})
            /\ UNCHANGED <<tokens, written>>

DeleteToken ==
    /\ UNCHANGED outsideStore
    /\ \E store \in Stores : \E key \in Keys :
        /\ tokens' = delete_token(tokens, key)
        /\ written' = [written EXCEPT ![key] = None]
        /\ tret' = TRet("delete_token", store, key, "ok", "", None, {})

\* the stored ciphertext of a record is altered outside the program
AlterCiphertext ==
    /\ UNCHANGED outsideStore
    /\ \E key \in Keys :
        /\ tokens[key] # None
        /\ tokens[key][1].value.intact
        /\ tokens' = [tokens EXCEPT ![key] =
                         Some([value |-> [tokens[key][1].value EXCEPT !.intact = FALSE],
                               type |-> tokens[key][1].type])]
        /\ UNCHANGED <<written, tret>>

StoreInit ==
    /\ tokens = [k \in Keys |-> None]
    /\ written = [k \in Keys |-> None]
    /\ tret = TRet("", "", "", "ok", "", None, {})

StoreNext ==
    \/ StoreToken
    \/ GetToken
    \/ GetAllTokensByType
    \/ DeleteToken
    \/ AlterCiphertext

(***************************************************************************)
(* Sync-dedup gate (digitalocean_integration/utils.py and spaces.py).       *)
(* A dict is the sequence of its <<name, value>> members in insertion       *)
(* order; a JSON text is the sequence of members in the order written.      *)
(***************************************************************************)
FieldNames == <<"a", "b">>
FieldValues == 1..NumFieldValues

Rank(name) == CHOOSE i \in 1..Len(FieldNames) : FieldNames[i] = name

\* the dicts over FieldNames: every insertion order of every subset of names
Dicts ==
    {d \in UNION {[1..n -> {<<FieldNames[i], v>> : i \in 1..Len(FieldNames), v \in FieldValues}] :
                    n \in 0..Len(FieldNames)} :
        \A i, j \in 1..Len(d) : i # j => d[i][1] # d[j][1]}

\* members ordered by name, as sort_keys=True emits them
RECURSIVE SortedMembers(_)
SortedMembers(d) ==
    IF d = <<>> THEN <<>>
    ELSE LET m == CHOOSE i \in 1..Len(d) : \A j \in 1..Len(d) : Rank(d[i][1]) <= Rank(d[j][1])
             rest == [k \in 1..(Len(d) - 1) |-> IF k < m THEN d[k] ELSE d[k + 1]]
         IN  <<d[m]>> \o SortedMembers(rest)

\* json.dumps(data, ensure_ascii=False, sort_keys=sort_keys)
json_dumps(data, sort_keys) ==
    [json |-> IF sort_keys THEN SortedMembers(data) ELSE data]

\* json.loads(text): the dict in the order of the text
json_loads(text) == text.json

\* hashlib.sha256(text.encode()).hexdigest(), collision-free
sha256_hexdigest(text) == [sha256 |-> text]

\* compute_data_hash (shared/utils.py and digitalocean_integration/utils.py)
compute_data_hash(data) == sha256_hexdigest(json_dumps(data, TRUE))

\* has_data_changed of digitalocean_integration/utils.py: hashes the stored
\* body as it is
has_data_changed_utils(data, key, objects) ==
    LET new_hash == compute_data_hash(data)
    IN  IF objects[key] = None THEN TRUE
        ELSE LET existing_data == objects[key][1]
                 existing_hash == sha256_hexdigest(existing_data)
             IN  existing_hash # new_hash

\* has_data_changed of digitalocean_integration/spaces.py: parses the stored
\* body and hashes its canonical form
has_data_changed_spaces(data, key, objects) ==
    LET new_hash == compute_data_hash(data)
    IN  IF objects[key] = None THEN TRUE
        ELSE LET existing_data == objects[key][1]
                 existing_hash == compute_data_hash(json_loads(existing_data))
             IN  existing_hash # new_hash

\* upload_to_spaces: put_object(Body=json.dumps(data, ensure_ascii=False));
\* put is "ok" or "failed" (any exception of the client)
upload_to_spaces(data, key, objects, put) ==
    IF put = "ok"
    THEN [objects |-> [objects EXCEPT ![key] = Some(json_dumps(data, FALSE))],
          raised |-> None]
    ELSE [objects |-> objects, raised |-> Some("Spaces upload failed")]

SpacesKeys == {"users/1/shopify/data.json"}

\* len(text.encode()), counted in members of the JSON text
len_encoded(text) == Len(text.json)

\* what a failed attempt hands to its caller: the detail of the exception
\* and the diagnostics added to it
SyncError(detail, data_hash, data_size_bytes) ==
    [detail |-> detail, data_hash |-> data_hash, data_size_bytes |-> data_size_bytes]

SRet(caller, key, data, changed, writer, invocations, error) ==
    [caller |-> caller, key |-> key, data |-> data, changed |-> changed, writer |-> writer,
     invocations |-> invocations, error |-> error]

\* what the caller does with the exception of upload_to_spaces:
\* shopify_webhook and daily_poll let it through (or log it) as it is,
\* oauth_callback of facebook_integration records error_details and
\* data_size_bytes in its upload status
caller_error(caller, data, detail) ==
    IF caller = "facebook_oauth_callback"
    THEN SyncError(detail, None,
                   Some(IF data # <<>> THEN len_encoded(json_dumps(data, FALSE)) ELSE 0))
    ELSE SyncError(detail, None, None)

\* a gate that calls the writer again after a failed upload
sync_retried(caller, changed, data, key, put) ==
    IF changed
    THEN LET r == upload_to_spaces(data, key, bucket, "ok")
         IN  /\ bucket' = r.objects
             /\ sret' = SRet(caller, key, data, TRUE, "ok",
                             IF put = "ok" THEN 1 ELSE 2, None)
    ELSE /\ bucket' = bucket
         /\ sret' = SRet(caller, key, data, FALSE, "not_invoked", 0, None)

\* if has_data_changed(...): upload_to_spaces(...)
sync(caller, changed, data, key, put) ==
    IF changed
    THEN LET r == upload_to_spaces(data, key, bucket, put)
         IN  /\ bucket' = r.objects
             /\ sret' = SRet(caller, key, data, TRUE,
                             IF r.raised = None THEN "ok" ELSE "failed", 1,
                             IF r.raised = None THEN None
                             ELSE Some(caller_error(caller, data, r.raised[1])))
    ELSE /\ bucket' = bucket
         /\ sret' = SRet(caller, key, data, FALSE, "not_invoked", 0, None)

\* shopify_webhook (shopify_integration/routes.py), gate of utils.py
ShopifyWebhook ==
    /\ UNCHANGED outsideSync
    /\ \E key \in SpacesKeys : \E data \in Dicts : \E put \in {"ok", "failed"} :
        sync("shopify_webhook", has_data_changed_utils(data, key, bucket), data, key, put)

\* daily_poll (shopify_integration/utils.py), gate of spaces.py
DailyPoll ==
    /\ UNCHANGED outsideSync
    /\ \E key \in SpacesKeys : \E data \in Dicts : \E put \in {"ok", "failed"} :
        sync("daily_poll", has_data_changed_spaces(data, key, bucket), data, key, put)

\* oauth_callback (facebook_integration/routes.py), gate of spaces.py, the
\* upload inside try/except
FacebookOauthCallback ==
    /\ UNCHANGED outsideSync
    /\ \E key \in SpacesKeys : \E data \in Dicts : \E put \in {"ok", "failed"} :
        sync("facebook_oauth_callback", has_data_changed_spaces(data, key, bucket),
             data, key, put)

SyncInit ==
    /\ bucket = [k \in SpacesKeys |-> None]
    /\ sret = SRet("", "", <<>>, FALSE, "not_invoked", 0, None)

SyncNext ==
    \/ ShopifyWebhook
    \/ DailyPoll
    \/ FacebookOauthCallback

(***************************************************************************)
(* The write loop of store_token / store_uuid, attempt by attempt, run by   *)
(* two request handlers over the same database file.  An attempt opens a    *)
(* connection, executes INSERT OR REPLACE (which takes the write lock of    *)
(* the file) and commits; sqlite raises OperationalError "database is       *)
(* locked" when another connection holds the write lock.                    *)
(***************************************************************************)
Handlers == {"facebook_integration", "shopify_integration"}
Databases == {"tokens", "sessions"}

\* the record both handlers store: the access token of one page
PutKeys == {"FACEBOOK_ACCESS_TOKEN_1"}

\* the arguments of a call: store_token(key, value, type) on the tokens
\* database; store_uuid(new_session_id, user_uuid) on the sessions database,
\* new_session_id being an id generate_session_id has not returned before
PutCalls(database, used) ==
    IF database = "tokens"
    THEN [key : PutKeys, value : Values, type : Types]
    ELSE [key : SessionIds \ used, value : TenantIds, type : {""}]

\* the session ids given out so far
UsedSessionIds(table, calls) ==
    {s \in SessionIds : table[s] # None}
        \cup {calls[h].call[1].key : h \in {g \in DOMAIN calls : calls[g].call # None}}

\* self.fernet of the storage object of a handler
put_fernet(database) ==
    IF database = "tokens" THEN store_fernet("routes") ELSE session_fernet

\* the row an attempt inserts
put_row(database, call) ==
    IF database = "tokens"
    THEN [value |-> fernet_encrypt(put_fernet(database), call.value), type |-> call.type]
    ELSE fernet_encrypt(put_fernet(database), call.value)

\* a row replacement that keeps the type column of an existing tokens row
insert_or_replace_torn(table, key, row) ==
    IF table[key] # None /\ "type" \in DOMAIN row
    THEN [table EXCEPT ![key] = Some([row EXCEPT !.type = table[key][1].type])]
    ELSE [table EXCEPT ![key] = Some(row)]

\* INSERT OR REPLACE INTO <table> ... ; conn.commit()
insert_or_replace(table, key, row) == [table EXCEPT ![key] = Some(row)]

PutIdle == [pc |-> "idle", call |-> None, outcomes |-> <<>>, raised |-> None,
            overlap |-> FALSE]

\* raise ... "write failed after retries"
retries_exhausted(database) ==
    IF database = "tokens"
    THEN "Database write failed after retries"
    ELSE "Session database write failed after retries"

\* the end of the loop turned into a plain return
after_locked_dropped(p, database) ==
    IF Len(p.outcomes) + 1 < WriteAttempts
    THEN [p EXCEPT !.pc = "connect", !.outcomes = Append(p.outcomes, "locked")]
    ELSE [p EXCEPT !.pc = "returned", !.outcomes = Append(p.outcomes, "locked")]

\* except OperationalError with "database is locked": time.sleep(0.1) and the
\* next iteration of range(3), or the raise after the loop
after_locked(p, database) ==
    IF Len(p.outcomes) + 1 < WriteAttempts
    THEN [p EXCEPT !.pc = "connect", !.outcomes = Append(p.outcomes, "locked")]
    ELSE [p EXCEPT !.pc = "raised", !.outcomes = Append(p.outcomes, "locked"),
                   !.raised = Some(retries_exhausted(database))]

\* every OperationalError handled as lock contention
after_error_retried(p, database) ==
    IF Len(p.outcomes) + 1 < WriteAttempts
    THEN [p EXCEPT !.pc = "connect", !.outcomes = Append(p.outcomes, "error")]
    ELSE [p EXCEPT !.pc = "raised", !.outcomes = Append(p.outcomes, "error"),
                   !.raised = Some(retries_exhausted(database))]

\* except OperationalError, any other message: raise
after_error(p, database) ==
    [p EXCEPT !.pc = "raised", !.outcomes = Append(p.outcomes, "error"),
              !.raised = Some("sqlite3.OperationalError")]

InProgress(p) == p.pc \in {"connect", "commit"}

\* a handler calls store_token / store_uuid: the loop is entered
PutCall ==
    /\ UNCHANGED outsidePut
    /\ \E h \in Handlers :
       \E call \in PutCalls(db, IF db = "tokens" THEN {} ELSE UsedSessionIds(sessions, puts)) :
        LET others == Handlers \ {h}
            overlapping == \E o \in others :
                              InProgress(puts[o]) /\ puts[o].call[1].key = call.key
        IN  /\ ~InProgress(puts[h])
            /\ puts' = [o \in Handlers |->
                         IF o = h
                         THEN [pc |-> "connect", call |-> Some(call), outcomes |-> <<>>,
                               raised |-> None, overlap |-> overlapping]
                         ELSE [puts[o] EXCEPT !.overlap = FALSE]]
            /\ UNCHANGED <<db, lock, tokens, sessions>>

\* an attempt connects and executes the INSERT: it holds the write lock
PutExecute ==
    /\ UNCHANGED outsidePut
    /\ \E h \in Handlers :
        /\ puts[h].pc = "connect"
        /\ lock = None
        /\ lock' = Some(h)
        /\ puts' = [puts EXCEPT ![h].pc = "commit"]
        /\ UNCHANGED <<db, tokens, sessions>>

\* an attempt finds the write lock held: "database is locked"
PutLocked ==
    /\ UNCHANGED outsidePut
    /\ \E h \in Handlers :
        /\ puts[h].pc = "connect"
        /\ lock # None
        /\ puts' = [puts EXCEPT ![h] = after_locked(puts[h], db)]
        /\ UNCHANGED <<db, lock, tokens, sessions>>

\* conn.commit(): the row is replaced, the lock released, the call returns
PutCommit ==
    /\ UNCHANGED outsidePut
    /\ \E h \in Handlers :
        /\ puts[h].pc = "commit"
        /\ LET call == puts[h].call[1]
           IN  IF db = "tokens"
               THEN /\ tokens' = insert_or_replace(tokens, call.key, put_row(db, call))
                    /\ UNCHANGED sessions
               ELSE /\ sessions' = insert_or_replace(sessions, call.key, put_row(db, call))
                    /\ UNCHANGED tokens
        /\ lock' = None
        /\ puts' = [puts EXCEPT ![h].pc = "returned",
                              ![h].outcomes = Append(puts[h].outcomes, "ok")]
        /\ UNCHANGED db

\* an attempt raises an OperationalError other than "database is locked"
\* (while connecting, executing or committing); the connection rolls back
PutError ==
    /\ UNCHANGED outsidePut
    /\ \E h \in Handlers :
        /\ InProgress(puts[h])
        /\ lock' = IF lock = Some(h) THEN None ELSE lock
        /\ puts' = [puts EXCEPT ![h] = after_error(puts[h], db)]
        /\ UNCHANGED <<db, tokens, sessions>>

PutInit ==
    /\ db = "tokens"
    /\ puts = [h \in Handlers |-> PutIdle]
    /\ lock = None

PutNext ==
    \/ PutCall
    \/ PutExecute
    \/ PutLocked
    \/ PutCommit
    \/ PutError

(***************************************************************************)
(* Construction of the storage objects at import time: every module builds  *)
(* its own TokenStorage / SessionStorage, and each __init__ derives the     *)
(* Fernet key from STATE_TOKEN_SECRET as the environment holds it then.     *)
(* The empty string is "".                                                  *)
(***************************************************************************)
StorageObjects ==
    {"facebook_integration.routes.token_storage",
     "facebook_integration.routes.session_storage",
     "shopify_integration.routes.token_storage",
     "shopify_integration.routes.session_storage"}

\* what os.environ can hold for STATE_TOKEN_SECRET
EnvValues == {None, Some(""), Some(EnvSecret), Some(OtherSecret)}

\* os.getenv("STATE_TOKEN_SECRET").encode() and the derivation:
\* [fernet, raised], fernet being Optional
storage_fernet(env) ==
    IF env = None
    THEN [fernet |-> None,
          raised |-> Some("AttributeError: 'NoneType' object has no attribute 'encode'")]
    ELSE [fernet |-> Some(get_fernet_key(env[1])), raised |-> None]

Unbuilt == [pc |-> "unbuilt", env |-> None, fernet |-> None, raised |-> None]

\* the operator sets, changes or unsets the variable
SetEnviron ==
    /\ UNCHANGED outsideBoot
    /\ \E env \in EnvValues \ {environ} : environ' = env
    /\ UNCHANGED built

\* TokenStorage() / SessionStorage() at module level: self.fernet = get_fernet_key()
ConstructStorage ==
    /\ UNCHANGED outsideBoot
    /\ \E o \in StorageObjects :
        /\ built[o].pc = "unbuilt"
        /\ LET r == storage_fernet(environ)
           IN  built' = [built EXCEPT ![o] =
                           [pc |-> IF r.raised = None THEN "constructed" ELSE "raised",
                            env |-> environ, fernet |-> r.fernet, raised |-> r.raised]]
    /\ UNCHANGED environ

\* the process ends: its module objects are gone
ProcessExit ==
    /\ UNCHANGED outsideBoot
    /\ \E o \in StorageObjects : built[o].pc # "unbuilt"
    /\ built' = [o \in StorageObjects |-> Unbuilt]
    /\ UNCHANGED environ

BootInit ==
    /\ environ = Some(EnvSecret)
    /\ built = [o \in StorageObjects |-> Unbuilt]

BootNext ==
    \/ SetEnviron
    \/ ConstructStorage
    \/ ProcessExit

(***************************************************************************)
(* The login and callback routes (facebook_integration/routes.py,           *)
(* shopify_integration/routes.py), one storage access per step: the SELECT  *)
(* of get_uuid, the DELETE of clear_session and the write of store_uuid     *)
(* are separate steps of a request, and the steps of two requests           *)
(* interleave.  validate_state_token, generate_session_id, uuid.uuid4 and   *)
(* generate_state_token touch no storage and belong to the step they        *)
(* precede or follow.  A tenant UUID u travels in a state token as the      *)
(* text uuid_str(u).                                                        *)
(***************************************************************************)
Requests == {"request_1", "request_2"}

\* the defaults of generate_state_token and validate_state_token, in the
\* time unit of the model
DefaultExpiry == MaxTtl
DefaultMaxAge == MaxAge

uuid_str(u) == Str(u)
\* the tenant a text names (the texts in flight are those of uuid_str)
uuid_of(text) == CHOOSE u \in TenantIds : uuid_str(u) = text

\* secrets.token_urlsafe(32) / uuid.uuid4(): a value never returned before;
\* which one is immaterial, the routes take the least
Fresh(unused) == {x \in unused : \A y \in unused : x <= y}

ReqIdle ==
    [pc |-> "idle", route |-> "", cookie |-> None, state |-> <<>>, token_uuid |-> None,
     replay |-> FALSE, rotating |-> FALSE, new_session_id |-> None, user_uuid |-> None,
     raised |-> None]

\* the route ends with an exception before it has written anything: its
\* locals are gone
Raised(q, detail) ==
    [ReqIdle EXCEPT !.pc = "raised", !.route = q.route, !.raised = Some(detail)]

Finished(q) == q.pc \in {"idle", "done", "raised"}

\* request.cookies.get("session_id"): nothing, or a cookie the browser was given
JarCookies == {None} \cup {Some(s) : s \in jar}

\* start_oauth up to its call of get_or_create_session
StartOauth ==
    /\ UNCHANGED outsideRoute
    /\ \E r \in DOMAIN reqs : \E cookie \in JarCookies :
        /\ Finished(reqs[r])
        /\ reqs' = [reqs EXCEPT ![r] =
                       [ReqIdle EXCEPT !.pc = "get_uuid", !.route = "start_oauth",
                                       !.cookie = cookie]]
    /\ UNCHANGED <<sessions, issued, minted, root, rotated, links, jar, spent>>

\* oauth_callback up to its call of verify_session: validate_state_token(state)
\* and `if not user_uuid`
OauthCallback ==
    /\ UNCHANGED outsideRoute
    /\ \E r \in DOMAIN reqs : \E cookie \in JarCookies : \E state_token \in links :
        LET v == validate_state_token(state_token, DefaultMaxAge, now)
            q == [ReqIdle EXCEPT !.route = "oauth_callback", !.cookie = cookie,
                                 !.state = state_token, !.replay = state_token \in spent]
        IN  /\ Finished(reqs[r])
            /\ reqs' = [reqs EXCEPT ![r] =
                  IF v.kind = "error"
                  THEN [q EXCEPT !.pc = "raised", !.raised = Some(v.detail)]
                  ELSE IF ~TruthyStr(v.value)
                  THEN [q EXCEPT !.pc = "raised",
                                 !.raised = Some("Invalid UUID in state token")]
                  ELSE [q EXCEPT !.pc = "verify_session",
                                 !.token_uuid = Some(uuid_of(v.value[1]))]]
    /\ UNCHANGED <<sessions, issued, minted, root, rotated, links, jar, spent>>

\* a verify_session that lets every request through
verified_unchecked(q, table) == [q EXCEPT !.pc = "get_uuid"]

\* verify_session(session_id, expected_uuid=user_uuid): its get_uuid and checks
verified(q, table) ==
    IF ~Truthy(q.cookie)
    THEN Raised(q, "Missing session_id cookie")
    ELSE LET looked == get_uuid(table, q.cookie[1])
         IN  IF looked.raised # None
             THEN Raised(q, looked.raised[1])
             ELSE IF ~Truthy(looked.value)
             THEN Raised(q, "Invalid or expired session")
             ELSE IF mismatched(looked.value, q.token_uuid)
             THEN Raised(q, "Mismatched session UUID")
             ELSE [q EXCEPT !.pc = "get_uuid"]

VerifySessionStep ==
    /\ UNCHANGED outsideRoute
    /\ \E r \in DOMAIN reqs :
        /\ reqs[r].pc = "verify_session"
        /\ reqs' = [reqs EXCEPT ![r] = verified(reqs[r], sessions)]
    /\ UNCHANGED <<sessions, issued, minted, root, rotated, links, jar, spent>>

\* get_or_create_session: user_uuid = self.get_uuid(session_id), and on the
\* mint branch generate_session_id() and uuid.uuid4()
GetUuidStep ==
    /\ UNCHANGED outsideRoute
    /\ \E r \in DOMAIN reqs :
        LET q == reqs[r]
            looked == IF Truthy(q.cookie)
                      THEN get_uuid(sessions, q.cookie[1])
                      ELSE [value |-> None, raised |-> None]
        IN  /\ q.pc = "get_uuid"
            /\ IF looked.raised # None
               THEN /\ reqs' = [reqs EXCEPT ![r] = Raised(q, looked.raised[1])]
                    /\ UNCHANGED <<issued, minted>>
               ELSE IF Truthy(looked.value)
               THEN /\ reqs' = [reqs EXCEPT ![r] =
                                  [q EXCEPT !.pc = "clear_session", !.rotating = TRUE,
                                            !.user_uuid = looked.value]]
                    /\ UNCHANGED <<issued, minted>>
               ELSE \E new_session_id \in Fresh(SessionIds \ issued) :
                    \E new_uuid \in Fresh(TenantIds \ minted) :
                        /\ reqs' = [reqs EXCEPT ![r] =
                                      [q EXCEPT !.pc = "store_uuid",
                                                !.new_session_id = Some(new_session_id),
                                                !.user_uuid = Some(new_uuid)]]
                        /\ issued' = issued \cup {new_session_id}
                        /\ minted' = minted \cup {new_uuid}
    /\ UNCHANGED <<sessions, root, rotated, links, jar, spent>>

\* get_or_create_session, rotation branch: self.clear_session(session_id) and
\* generate_session_id()
ClearSessionStep ==
    /\ UNCHANGED outsideRoute
    /\ \E r \in DOMAIN reqs : \E new_session_id \in Fresh(SessionIds \ issued) :
        /\ reqs[r].pc = "clear_session"
        /\ sessions' = clear_session(sessions, reqs[r].cookie[1])
        /\ rotated' = rotated \cup {reqs[r].cookie[1]}
        /\ issued' = issued \cup {new_session_id}
        /\ reqs' = [reqs EXCEPT ![r].pc = "store_uuid",
                                ![r].new_session_id = Some(new_session_id)]
    /\ UNCHANGED <<minted, root, links, jar, spent>>

\* self.store_uuid(new_session_id, user_uuid), then the rest of the route:
\* start_oauth hands out generate_state_token(extra_data=user_uuid); both
\* routes set the session_id cookie
StoreUuidStep ==
    /\ UNCHANGED outsideRoute
    /\ \E r \in DOMAIN reqs : \E outcomes \in AttemptOutcomes : \E nonce \in {<<"a">>} :
        LET q == reqs[r]
            stored == store_uuid(sessions, q.new_session_id[1], q.user_uuid[1], outcomes)
        IN  /\ q.pc = "store_uuid"
            /\ sessions' = stored.table
            /\ IF stored.raised # None
               THEN /\ reqs' = [reqs EXCEPT ![r] =
                                  [q EXCEPT !.pc = "raised", !.raised = stored.raised]]
                    /\ UNCHANGED <<root, links, jar, spent>>
               ELSE /\ reqs' = [reqs EXCEPT ![r].pc = "done"]
                    /\ root' = [root EXCEPT ![q.new_session_id[1]] =
                                   IF q.rotating THEN root[q.cookie[1]] ELSE q.user_uuid]
                    /\ jar' = jar \cup {q.new_session_id[1]}
                    /\ links' = IF q.route = "start_oauth"
                                THEN links \cup {generate_state_token(
                                                    DefaultExpiry,
                                                    Some(uuid_str(q.user_uuid[1])),
                                                    now, nonce)}
                                ELSE links
                    /\ spent' = IF q.route = "oauth_callback"
                               THEN spent \cup {q.state}
                               ELSE spent
    /\ UNCHANGED <<issued, minted, rotated>>

RouteInit ==
    /\ reqs = [r \in Requests |-> ReqIdle]
    /\ links = {}
    /\ jar = {}
    /\ spent = {}

RouteNext ==
    \/ StartOauth
    \/ OauthCallback
    \/ VerifySessionStep
    \/ GetUuidStep
    \/ ClearSessionStep
    \/ StoreUuidStep

\* the routes served one request at a time, while the wall clock moves
ReplayNext ==
    \/ StartOauth
    \/ OauthCallback
    \/ VerifySessionStep
    \/ GetUuidStep
    \/ ClearSessionStep
    \/ StoreUuidStep
    \/ ClockSet

(***************************************************************************)
(* Two sync attempts at once: shopify_webhook in a request handler and      *)
(* daily_poll in the scheduler.  The lookup of the stored object            *)
(* (get_object inside has_data_changed) and the write (put_object inside    *)
(* upload_to_spaces) are separate requests to Spaces.                       *)
(***************************************************************************)
SyncCallers == {"shopify_webhook", "daily_poll"}

SyncIdle == [pc |-> "idle", key |-> "", data |-> <<>>, invocations |-> 0, overlap |-> FALSE]

Syncing(a) == a.pc \in {"has_data_changed", "upload_to_spaces"}

\* the gate each caller imports
has_data_changed_of(caller, data, key, objects) ==
    IF caller = "shopify_webhook"
    THEN has_data_changed_utils(data, key, objects)
    ELSE has_data_changed_spaces(data, key, objects)

\* a caller has fetched the shop's data and reaches the gate
SyncBegin ==
    /\ UNCHANGED outsideRace
    /\ \E c \in SyncCallers : \E key \in SpacesKeys : \E data \in Dicts :
        LET overlapping == \E o \in SyncCallers \ {c} :
                              Syncing(syncs[o]) /\ syncs[o].key = key
        IN  /\ ~Syncing(syncs[c])
            /\ syncs' = [o \in SyncCallers |->
                           IF o = c
                           THEN [pc |-> "has_data_changed", key |-> key, data |-> data,
                                 invocations |-> 0, overlap |-> overlapping]
                           ELSE [syncs[o] EXCEPT !.overlap = FALSE]]
    /\ UNCHANGED bucket

\* if has_data_changed(data, spaces_key, s3_client)
SyncLookup ==
    /\ UNCHANGED outsideRace
    /\ \E c \in SyncCallers :
        /\ syncs[c].pc = "has_data_changed"
        /\ syncs' = [syncs EXCEPT ![c].pc =
                        IF has_data_changed_of(c, syncs[c].data, syncs[c].key, bucket)
                        THEN "upload_to_spaces"
                        ELSE "skipped"]
    /\ UNCHANGED bucket

\* upload_to_spaces(data, spaces_key, s3_client)
SyncUpload ==
    /\ UNCHANGED outsideRace
    /\ \E c \in SyncCallers : \E put \in {"ok", "failed"} :
        LET r == upload_to_spaces(syncs[c].data, syncs[c].key, bucket, put)
        IN  /\ syncs[c].pc = "upload_to_spaces"
            /\ bucket' = r.objects
            /\ syncs' = [syncs EXCEPT ![c].pc = IF r.raised = None THEN "written"
                                                 ELSE "failed",
                                        ![c].invocations = syncs[c].invocations + 1]

RaceInit == syncs = [c \in SyncCallers |-> SyncIdle]

RaceNext ==
    \/ SyncBegin
    \/ SyncLookup
    \/ SyncUpload

(***************************************************************************)
(* The credentials of the Facebook integration                              *)
(* (facebook_integration/routes.py).  oauth_callback, once the session of   *)
(* its tenant is verified, stores the user access token it exchanged the    *)
(* code for and, per page of that Facebook account, the page access token   *)
(* and the tenant UUID; facebook_webhook reads them back for the page of    *)
(* an entry.  A key is the tuple of the parts of its f-string.  Page p      *)
(* belongs to the Facebook account of tenant p.                             *)
(***************************************************************************)
PageIds == TenantIds

PageOwner(page_id) == page_id

UserTokenKey == <<"FACEBOOK_USER_ACCESS_TOKEN">>
PageTokenKey(page_id) == <<"FACEBOOK_ACCESS_TOKEN_", page_id>>
PageUuidKey(page_id) == <<"PAGE_UUID_", page_id>>

CredKeys ==
    {UserTokenKey} \cup {PageTokenKey(p) : p \in PageIds} \cup {PageUuidKey(p) : p \in PageIds}

\* an access token Facebook issued: to the account of which tenant, for the
\* user or for a page, in which authorization
AccessToken(tenant, scope, grant) == [granted_to |-> tenant, scope |-> scope, grant |-> grant]

\* the store_token calls of oauth_callback, in order: <<key, value, type>>
callback_writes(user_uuid, grant) ==
    LET page_id == CHOOSE p \in PageIds : PageOwner(p) = user_uuid
    IN  << <<UserTokenKey, AccessToken(user_uuid, "user", grant), "token">>,
           <<PageTokenKey(page_id), AccessToken(user_uuid, page_id, grant), "token">>,
           <<PageUuidKey(page_id), user_uuid, "uuid">> >>

\* the table after the first n writes of a callback
RECURSIVE stored_writes(_, _, _)
stored_writes(table, writes, n) ==
    IF n = 0 THEN table
    ELSE LET w == writes[n]
         IN  store_token(stored_writes(table, writes, n - 1), store_fernet("routes"),
                         w[1], w[2], w[3], <<"ok">>).table

\* oauth_callback of tenant user_uuid from its first store_token on; a
\* store_token that raises ends the callback
CallbackStores ==
    /\ UNCHANGED outsideHook
    /\ \E user_uuid \in TenantIds : \E grant \in Values :
        LET writes == callback_writes(user_uuid, grant)
        IN  \E n \in 0..Len(writes) :
               tokens' = stored_writes(tokens, writes, n)
    /\ UNCHANGED refresh

\* facebook_webhook for an entry of page_id with "changes": the page data is
\* fetched again with the stored user access token and goes into the
\* document of the tenant of the page
FacebookWebhook ==
    /\ UNCHANGED outsideHook
    /\ \E page_id \in PageIds :
        LET fernet == store_fernet("routes")
            access_token == get_token(tokens, fernet, PageTokenKey(page_id)).value
            user_uuid == get_token(tokens, fernet, PageUuidKey(page_id)).value
            user_access_token == get_token(tokens, fernet, UserTokenKey).value
        IN  /\ access_token # None
            /\ user_uuid # None
            /\ user_access_token # None
            /\ refresh' = Some([page_id |-> page_id,
                                spaces_key |-> <<"users/", user_uuid[1], "/facebook/data.json">>,
                                user_uuid |-> user_uuid[1],
                                user_access_token |-> user_access_token[1]])
    /\ UNCHANGED tokens

HookInit == refresh = None

HookNext ==
    \/ CallbackStores
    \/ FacebookWebhook

(***************************************************************************)
(* Specifications: one per component, over the same state.                 *)
(***************************************************************************)
Init ==
    /\ SessionInit
    /\ TokenInit
    /\ StoreInit
    /\ SyncInit
    /\ PutInit
    /\ BootInit
    /\ RouteInit
    /\ RaceInit
    /\ HookInit

Next == SessionNext

Spec == Init /\ [][Next]_vars

TokenSpec == Init /\ [][TokenNext]_vars

StoreSpec == Init /\ [][StoreNext]_vars

SyncSpec == Init /\ [][SyncNext]_vars

\* two handlers writing to the tokens database or to the sessions database
PutSpecInit ==
    /\ SessionInit
    /\ TokenInit
    /\ StoreInit
    /\ SyncInit
    /\ BootInit
    /\ RouteInit
    /\ RaceInit
    /\ HookInit
    /\ db \in Databases
    /\ puts = [h \in Handlers |-> PutIdle]
    /\ lock = None

PutSpec == PutSpecInit /\ [][PutNext]_vars

BootSpec == Init /\ [][BootNext]_vars

RouteSpec == Init /\ [][RouteNext]_vars

ReplaySpecInit ==
    /\ SessionInit
    /\ TokenInit
    /\ StoreInit
    /\ SyncInit
    /\ PutInit
    /\ BootInit
    /\ reqs = [r \in {"request_1"} |-> ReqIdle]
    /\ links = {}
    /\ jar = {}
    /\ spent = {}
    /\ RaceInit
    /\ HookInit

ReplaySpec == ReplaySpecInit /\ [][ReplayNext]_vars

RaceSpec == Init /\ [][RaceNext]_vars

\* the vault holding the keys of the Facebook integration
HookSpecInit ==
    /\ SessionInit
    /\ TokenInit
    /\ tokens = [k \in CredKeys |-> None]
    /\ written = [k \in Keys |-> None]
    /\ tret = TRet("", "", "", "ok", "", None, {})
    /\ SyncInit
    /\ PutInit
    /\ BootInit
    /\ RouteInit
    /\ RaceInit
    /\ HookInit

HookSpec == HookSpecInit /\ [][HookNext]_vars

\* the session store while the wall clock advances
AgingNext ==
    \/ GetOrCreateSession
    \/ VerifySession
    \/ ClockSet

AgingSpec == Init /\ [][AgingNext]_vars

\* the tenant a session id resolves to (None when it does not resolve)
Resolves(table, session_id) == get_uuid(table, session_id).value

(***************************************************************************)
(* Session Manager properties                                              *)
(***************************************************************************)
\* a step that is a call of op
CallOf(op) == ret' # ret /\ ret'.op = op

\* C1: get_or_create_session(s), called with a session id s that resolves to
\* tenant u, returns (s', u) with s' # s, and afterwards s' resolves to u;
\* along a chain of rotations every call returns the tenant that was bound
\* when the first id of the chain was created, and every id that resolves
\* resolves to the tenant its chain started with.
C1_RotationKeepsTenant ==
    /\ [][(/\ CallOf("get_or_create_session")
           /\ Truthy(ret'.arg)
           /\ Resolves(sessions, ret'.arg[1]) # None
           /\ ret'.kind = "ok")
          => (/\ ret'.sid # ret'.arg
              /\ ret'.uuid = Resolves(sessions, ret'.arg[1])
              /\ ret'.uuid = root[ret'.arg[1]]
              /\ Resolves(sessions', ret'.sid[1]) = ret'.uuid)]_vars
    /\ [](\A s \in SessionIds :
            Resolves(sessions, s) # None => Resolves(sessions, s) = root[s])

\* C1 witness: the second rotation of a chain s0 -> s1 -> s2 has returned
C1_Witness ==
    /\ ret.op = "get_or_create_session" /\ ret.kind = "ok" /\ ret.branch = "rotate"
    /\ ret.arg[1] \in issued
    /\ Cardinality({s \in rotated : root[s] = ret.uuid}) >= 2
    /\ Resolves(sessions, ret.sid[1]) = ret.uuid

\* C2: once get_or_create_session(s) has rotated a resolvable session id s,
\* s no longer resolves: every later verify_session(s, expected) fails with
\* "Invalid or expired session", and a later get_or_create_session(s) takes
\* the mint branch and returns a tenant never returned before.
C2_RotatedIdIsDead ==
    /\ [](\A s \in rotated : Resolves(sessions, s) = None)
    /\ [][(CallOf("verify_session") /\ Truthy(ret'.arg) /\ ret'.arg[1] \in rotated)
          => (ret'.kind = "error" /\ ret'.detail = "Invalid or expired session")]_vars
    /\ [][(CallOf("get_or_create_session") /\ Truthy(ret'.arg) /\ ret'.arg[1] \in rotated)
          => (/\ ret'.branch = "mint"
              /\ ret'.kind = "ok" => (ret'.uuid # None /\ ret'.uuid[1] \notin minted))]_vars

\* C2 witness: verify_session on a rotated id has failed as invalid
C2_Witness ==
    /\ ret.op = "verify_session" /\ Truthy(ret.arg) /\ ret.arg[1] \in rotated
    /\ ret.kind = "error" /\ ret.detail = "Invalid or expired session"

\* the argument is no session id, or one that does not resolve
Unresolvable(table, session_id) ==
    ~Truthy(session_id) \/ Resolves(table, session_id[1]) = None

SessionErrors ==
    {"Missing session_id cookie", "Invalid or expired session", "Mismatched session UUID"}

\* what a successful mint returns: a session id and a tenant never given out
\* before, the tenant in no record of the store, the new id resolving to it
FreshlyMinted ==
    /\ ret'.sid # None /\ ret'.sid[1] \notin issued
    /\ ret'.uuid # None /\ ret'.uuid[1] \notin minted
    /\ \A s \in SessionIds : Resolves(sessions, s) # ret'.uuid
    /\ Resolves(sessions', ret'.sid[1]) = ret'.uuid

C24_RemovedOnlyByOwnRotation ==
    /\ [][\A s \in SessionIds :
            (Resolves(sessions, s) # None /\ Resolves(sessions', s) # Resolves(sessions, s))
               => (/\ ret'.op = "get_or_create_session"
                   /\ ret'.arg = Some(s)
                   /\ ret'.branch = "rotate"
                   /\ Resolves(sessions', s) = None
                   /\ s \in rotated')]_vars
    /\ [][\A s \in SessionIds :
            (Resolves(sessions, s) # None /\ s \notin rotated')
               => Resolves(sessions', s) = root[s]]_vars

\* C24 witness: at the latest time of the clock, after another session id
\* was rotated, verify_session finds an id that was never rotated still
\* resolving to the tenant it was created for
C24_Witness ==
    /\ now = MaxTime
    /\ rotated # {}
    /\ ret.op = "verify_session" /\ ret.kind = "ok"
    /\ ret.arg[1] \in issued \ rotated
    /\ Resolves(sessions, ret.arg[1]) = root[ret.arg[1]]
    /\ \E s \in rotated : root[s] # root[ret.arg[1]]

(***************************************************************************)
(* State-token codec properties                                            *)
(***************************************************************************)
Validated == vres.kind # ""
Untampered == gen # None /\ state = gen[1].token
ExpiresAt == gen[1].timestamp + gen[1].expiry_seconds
Age == IF now >= gen[1].timestamp THEN now - gen[1].timestamp ELSE gen[1].timestamp - now

\* the positions at which the token in flight differs from the generated one
Changed == {i \in 1..Len(state) : state[i] # gen[1].token[i]}

\* the token in flight is the generated one with a single character of its
\* issued_at, expires_at, nonce or payload field replaced
Tampered ==
    /\ gen # None
    /\ Len(state) = Len(gen[1].token)
    /\ Cardinality(Changed) = 1
    /\ Changed \subseteq TamperablePositions(gen[1])

TamperPos == CHOOSE i \in Changed : TRUE
OriginalSpans == FieldSpans(gen[1].token, 1)
\* 1 issued_at, 2 expires_at, 3 nonce, 4 payload (which may hold colons)
TamperField ==
    IF TruthyStr(gen[1].extra_data) /\ TamperPos >= OriginalSpans[4][1] THEN 4
    ELSE CHOOSE f \in 1..3 :
            OriginalSpans[f][1] <= TamperPos /\ TamperPos <= OriginalSpans[f][2]
FieldText(s, f) == SubSeq(s, OriginalSpans[f][1], OriginalSpans[f][2])

\* the payload a generated token carries: an empty extra_data is not embedded
Carried == IF TruthyStr(gen[1].extra_data) THEN gen[1].extra_data ELSE None

ValidationErrors ==
    {"Malformed state token", "Expired state token",
     "Token age exceeds maximum allowed", "Invalid state token"}

\* C3: for every payload and every ttl, validate_state_token applied to the
\* token returned by generate_state_token(ttl, payload), at the generation
\* time and with the same secret, returns exactly that payload.
C3_RoundTripEveryPayload ==
    (Validated /\ Untampered /\ now = gen[1].timestamp)
        => (vres.kind = "ok" /\ vres.value = gen[1].extra_data)

C5_ExpiredExactlyAfterExpiry ==
    (Validated /\ Untampered)
        => ((now > ExpiresAt) <=> (vres.detail = "Expired state token"))

\* issued_at:expires_at:nonce[:payload]:signature with integer timestamps
WellFormed(token) ==
    /\ Len(split(token)) \in {4, 5}
    /\ int(split(token)[1]) # None
    /\ int(split(token)[2]) # None

\* C6: a well-formed, not yet expired token is rejected with the token-too-old
\* error whenever abs(now - issued_at) > max_age, so a correctly signed token
\* is accepted exactly when now <= expires_at and abs(now - issued_at) <=
\* max_age both hold.
C6_AgeCheckIndependentOfExpiry ==
    (Validated /\ Untampered /\ WellFormed(state)) =>
        /\ (now <= ExpiresAt /\ Age > vres.max_age)
              => vres.detail = "Token age exceeds maximum allowed"
        /\ vres.kind = "ok" <=> (now <= ExpiresAt /\ Age <= vres.max_age)

\* C6 witness: a token whose issued_at lies in the future, not expired, is
\* rejected as too old
C6_Witness ==
    /\ Validated /\ Untampered /\ WellFormed(state)
    /\ now < gen[1].timestamp /\ now <= ExpiresAt
    /\ vres.detail = "Token age exceeds maximum allowed"

\* every string generate_state_token returns under the secret
GeneratedTokens ==
    {generate_state_token(expiry_seconds, extra_data, timestamp, nonce) :
        expiry_seconds \in ExpirySeconds, extra_data \in ExtraData,
        timestamp \in Times, nonce \in Nonces}

\* C14: every token string validate_state_token accepts is, character for
\* character, a string generate_state_token produces under the same secret:
\* neither a token whose timestamp field is spelled differently but parses
\* to the same integer nor a 4-field token with an empty payload field
\* inserted is accepted.
C14_AcceptedOnlyIfGenerated ==
    (Validated /\ vres.kind = "ok") => state \in GeneratedTokens

\* C18: every rejection reaches the caller as the same error: whatever token
\* is rejected at this time, for whatever reason, the caller sees the error
\* it sees for the token just rejected.
C18_RejectionsIndistinguishable ==
    (Validated /\ vres.kind = "error") =>
        \A max_age \in MaxAges : \A token \in {state, gen[1].token, <<>>} :
            LET r == validate_state_token(token, max_age, now)
            IN  r.kind = "error" => r.detail = vres.detail

\* the fields of the token in flight, found without split
StateFields ==
    LET spans == FieldSpans(state, 1)
    IN  [f \in 1..Len(spans) |-> SubSeq(state, spans[f][1], spans[f][2])]

\* 4 or 5 colon-separated fields, the first two of them integers
ShapeOk ==
    /\ Len(StateFields) \in {4, 5}
    /\ int(StateFields[1]) # None
    /\ int(StateFields[2]) # None

\* C20: validate_state_token fails with "Malformed state token" exactly when
\* the token does not split into 4 or 5 colon-separated fields or issued_at
\* or expires_at does not parse as an integer, whatever the clock, max_age
\* and the signature are: the shape is decided before expiry, age and
\* signature are looked at.
C20_MalformedDecidedFirst ==
    Validated => (vres.detail = "Malformed state token" <=> ~ShapeOk)

\* C20 witness: a token whose expires_at was made a non-integer, checked
\* after its original expiry with a signature that no longer matches, is
\* rejected as malformed; so is an untouched token of six fields
C20_Witness ==
    /\ Validated /\ vres.detail = "Malformed state token"
    /\ \/ /\ Tampered /\ TamperField = 2
          /\ Len(StateFields) \in {4, 5} /\ int(StateFields[2]) = None
          /\ now > ExpiresAt
       \/ /\ Untampered /\ Len(StateFields) > 5 /\ now > ExpiresAt

(***************************************************************************)
(* Encrypted record store properties                                       *)
(***************************************************************************)
\* a step that is a call of op on the token store
StoreCallOf(op) == tret' # tret /\ tret'.op = op

\* the row of key exists and its ciphertext decrypts under the key of store
Readable(table, store, key) ==
    /\ table[key] # None
    /\ table[key][1].value.intact
    /\ table[key][1].value.key = store_fernet(store)

\* C9: get(k) after put(k, v) returns exactly v, also when read through
\* another store instance constructed with the same secret, and after
\* put(k, v1) followed by put(k, v2) it returns v2: a get through an instance
\* whose secret is that of the writer returns the value of the last put on k.
C9_GetReturnsLastPut ==
    [][(/\ StoreCallOf("get_token")
        /\ written[tret'.key] # None
        /\ StoreSecret(written[tret'.key][1].store) = StoreSecret(tret'.store)
        /\ tokens[tret'.key] # None /\ tokens[tret'.key][1].value.intact)
       => (tret'.kind = "ok" /\ tret'.value = Some(written[tret'.key][1].value))]_vars

\* C9 witness: a get through another instance with the same secret has
\* returned the value last put
C9_Witness ==
    /\ tret.op = "get_token" /\ tret.kind = "ok"
    /\ written[tret.key] # None
    /\ written[tret.key][1].store # tret.store
    /\ tret.value = Some(written[tret.key][1].value)

\* C10: get(k) on a record whose ciphertext was altered, or that was
\* encrypted under a different key, fails with an error: it returns no
\* plaintext and does not report the key as absent; get returns absent only
\* when no record exists for k; list_by_tag fails as a whole rather than
\* omitting a record it cannot decrypt.
C10_CorruptIsNotAbsent ==
    /\ [][(StoreCallOf("get_token") /\ tokens[tret'.key] # None
              /\ ~Readable(tokens, tret'.store, tret'.key))
          => (tret'.kind = "error" /\ tret'.value = None)]_vars
    /\ [][(StoreCallOf("get_token") /\ tret'.kind = "ok" /\ tret'.value = None)
          => tokens[tret'.key] = None]_vars
    /\ [][(/\ StoreCallOf("get_all_tokens_by_type")
           /\ \E k \in Keys : /\ tokens[k] # None
                              /\ tokens[k][1].type = tret'.key
                              /\ ~Readable(tokens, tret'.store, k))
          => (tret'.kind = "error" /\ tret'.listing = {})]_vars

\* C10 witness: a get on an altered record has raised
C10_Witness ==
    /\ tret.op = "get_token" /\ tret.kind = "error"
    /\ tret.detail = "cryptography.fernet.InvalidToken"
    /\ tokens[tret.key] # None /\ ~tokens[tret.key][1].value.intact

\* C21: after any sequence of put and delete calls, list_by_tag(t) returns
\* exactly the keys whose current record carries tag t, each mapped to its
\* current plaintext (the value of the last put on the key not deleted
\* since): a key that was deleted, or re-put under a different tag, does not
\* appear under t.  (Stated for a listing through an instance that can
\* decrypt every record of tag t; C10 covers the others.)
C21_ListingIsCurrentRecordsOfTag ==
    [][(/\ StoreCallOf("get_all_tokens_by_type")
        /\ \A k \in Keys :
              (tokens[k] # None /\ tokens[k][1].type = tret'.key)
                 => Readable(tokens, tret'.store, k))
       => (/\ tret'.kind = "ok"
           /\ tret'.listing =
                 {<<k, written[k][1].value>> :
                    k \in {j \in Keys : written[j] # None
                                         /\ written[j][1].type = tret'.key}})]_vars

\* C21 witness: a listing by tag has returned one key with its plaintext
\* while the other key, holding a record of the other tag, is left out
C21_Witness ==
    /\ tret.op = "get_all_tokens_by_type" /\ tret.kind = "ok"
    /\ \E k \in Keys : \E j \in Keys \ {k} :
          /\ written[k] # None /\ written[k][1].type = tret.key
          /\ tret.listing = {<<k, written[k][1].value>>}
          /\ written[j] # None /\ written[j][1].type # tret.key

\* C22: delete(k) is idempotent: it succeeds whether or not a record exists
\* for k, removes the record of k and changes no other record (none at all
\* when k is absent), a second delete(k) leaves the table as the first left
\* it, and after delete(k) a get(k) returns absent.
C22_DeleteIsIdempotent ==
    [][StoreCallOf("delete_token")
       => LET k == tret'.key
          IN  /\ tret'.kind = "ok"
              /\ tokens'[k] = None
              /\ \A j \in Keys \ {k} : tokens'[j] = tokens[j]
              /\ tokens[k] = None => tokens' = tokens
              /\ delete_token(tokens', k) = tokens'
              /\ \A store \in Stores :
                    get_token(tokens', store_fernet(store), k)
                        = [value |-> None, raised |-> None]]_vars

\* C22 witness: a delete has returned, its key has no record and the record
\* of the other key is still stored
C22_Witness ==
    /\ tret.op = "delete_token" /\ tret.kind = "ok"
    /\ tokens[tret.key] = None
    /\ \E j \in Keys \ {tret.key} : tokens[j] # None

(***************************************************************************)
(* Sync-dedup gate properties                                              *)
(***************************************************************************)
\* a step that is a sync attempt
SyncAttempt == sret' # sret /\ sret'.caller # ""

\* same members, whatever the insertion order
LogicallyEqual(d1, d2) ==
    {d1[i] : i \in 1..Len(d1)} = {d2[i] : i \in 1..Len(d2)}

\* C7: after a sync attempt has written document X under key k, every later
\* sync attempt for k whose content is logically equal to X (any insertion
\* order) is skipped and does not invoke the writer, as long as no different
\* content was written to k in between.
C7_EqualContentIsSkipped ==
    [][(/\ SyncAttempt
        /\ bucket[sret'.key] # None
        /\ LogicallyEqual(sret'.data, json_loads(bucket[sret'.key][1])))
       => (sret'.writer = "not_invoked" /\ bucket' = bucket)]_vars

\* C8: has_data_changed(candidate, key) is true if and only if no object is
\* stored at key or the canonical digest of the candidate differs from the
\* canonical digest of the stored object: false for a logically equal stored
\* object whatever its member order, true when a value differs.
C8_ChangedIffCanonicalDigestDiffers ==
    [][SyncAttempt
       => (sret'.changed <=>
              (\/ bucket[sret'.key] = None
               \/ compute_data_hash(sret'.data)
                     # compute_data_hash(json_loads(bucket[sret'.key][1]))))]_vars

(***************************************************************************)
(* Write loop properties (store_token / store_uuid, attempt by attempt)     *)
(***************************************************************************)
\* the table of the database the handlers write to
PutTable == IF db = "tokens" THEN tokens ELSE sessions

Attempts(p) == Len(p.outcomes)
Completed(p) == p.pc \in {"returned", "raised"}

\* handler h makes (finishes) a write attempt in this step
AttemptBy(h) == Attempts(puts'[h]) = Attempts(puts[h]) + 1

\* C11: a put (store_token / store_uuid) makes at most 3 write attempts; a
\* call returns only from an attempt that succeeded, which is its last one
\* and the only one that writes the record; when all 3 attempts hit lock
\* contention the call raises the "write failed after retries" error, the
\* table is left as it was, and the call does not return normally.
C11_AtMostThreeAttempts ==
    /\ [](\A h \in Handlers :
            /\ Attempts(puts[h]) <= WriteAttempts
            /\ puts[h].pc = "returned"
                  <=> (/\ Attempts(puts[h]) >= 1
                       /\ puts[h].outcomes = Locked(Attempts(puts[h]) - 1) \o <<"ok">>)
            /\ puts[h].outcomes = Locked(WriteAttempts)
                  => (/\ puts[h].pc = "raised"
                      /\ puts[h].raised = Some(retries_exhausted(db))))
    /\ [][\A h \in Handlers :
            /\ AttemptBy(h) => (\A i \in 1..Attempts(puts[h]) : puts[h].outcomes[i] # "ok")
            /\ (AttemptBy(h) /\ puts'[h].outcomes[Attempts(puts'[h])] # "ok")
                  => PutTable' = PutTable]_vars
    /\ [][PutTable' # PutTable
            => \E h \in Handlers :
                  /\ AttemptBy(h)
                  /\ puts'[h].pc = "returned"
                  /\ PutTable' = [PutTable EXCEPT ![puts[h].call[1].key] =
                                     Some(put_row(db, puts[h].call[1]))]]_vars

\* C11 witness: a store_token call has raised after three locked attempts and
\* the record stored earlier under its key, a different one, is still there
C11_Witness ==
    \E h \in Handlers :
        /\ db = "tokens"
        /\ puts[h].outcomes = Locked(WriteAttempts)
        /\ puts[h].pc = "raised"
        /\ tokens[puts[h].call[1].key] # None
        /\ tokens[puts[h].call[1].key][1] # put_row(db, puts[h].call[1])

\* C15: when two store_token calls on the same key ran concurrently and both
\* have completed, the stored record is the whole row of one of the calls
\* that returned: it decrypts to that call's plaintext and carries that same
\* call's type, never a mixture of the two writes nor an undecryptable row.
C15_ConcurrentPutsKeepWholeRows ==
    \A h \in Handlers : \A o \in Handlers \ {h} :
        (/\ db = "tokens"
         /\ puts[h].overlap
         /\ Completed(puts[h]) /\ Completed(puts[o])
         /\ \E w \in {h, o} : puts[w].pc = "returned")
        => LET key == puts[h].call[1].key
           IN  /\ tokens[key] # None
               /\ \E w \in {h, o} :
                    /\ puts[w].pc = "returned"
                    /\ fernet_decrypt(put_fernet(db), tokens[key][1].value)
                          = Some(puts[w].call[1].value)
                    /\ tokens[key][1].type = puts[w].call[1].type

\* C15 witness: two concurrent store_token calls on one key, with different
\* values and different types, have both returned
C15_Witness ==
    \E h \in Handlers : \E o \in Handlers \ {h} :
        /\ db = "tokens"
        /\ puts[h].overlap
        /\ puts[h].pc = "returned" /\ puts[o].pc = "returned"
        /\ puts[h].call[1].key = puts[o].call[1].key
        /\ puts[h].call[1].value # puts[o].call[1].value
        /\ puts[h].call[1].type # puts[o].call[1].type
        /\ tokens[puts[h].call[1].key][1] = put_row(db, puts[o].call[1])

\* C19: only lock contention is retried: an attempt that raises any other
\* OperationalError ends the call with that error on that same attempt, and
\* every attempt after the first follows attempts that were all locked.
C19_OtherErrorsPropagateAtOnce ==
    /\ [](\A h \in Handlers : \A i \in 1..Attempts(puts[h]) :
            puts[h].outcomes[i] = "error"
                => (/\ i = Attempts(puts[h])
                    /\ puts[h].pc = "raised"
                    /\ puts[h].raised = Some("sqlite3.OperationalError")))
    /\ [][\A h \in Handlers :
            AttemptBy(h) => puts[h].outcomes = Locked(Attempts(puts[h]))]_vars

\* C19 witness: a call has raised the other error on its second attempt
C19_Witness ==
    \E h \in Handlers :
        /\ puts[h].outcomes = <<"locked", "error">>
        /\ puts[h].pc = "raised"
        /\ puts[h].raised = Some("sqlite3.OperationalError")

(***************************************************************************)
(* Sync attempt properties                                                  *)
(***************************************************************************)
\* C16: one sync attempt invokes the writer exactly once when has_changed is
\* true and not at all when it is false; a skipped attempt leaves the object
\* at the key as it was, a failed write is not repeated and stores nothing,
\* and a successful write stores the candidate.
C16_WriterInvokedOnceIffChanged ==
    [][SyncAttempt
       => /\ sret'.changed => sret'.invocations = 1 /\ sret'.writer \in {"ok", "failed"}
          /\ ~sret'.changed
                => (/\ sret'.invocations = 0 /\ sret'.writer = "not_invoked"
                    /\ bucket' = bucket)
          /\ sret'.writer = "failed" => bucket' = bucket
          /\ sret'.writer = "ok"
                => bucket' = [bucket EXCEPT ![sret'.key] =
                                 Some(json_dumps(sret'.data, FALSE))]]_vars

\* C16 witness: the upload of a changed document has failed, the writer was
\* called once and the object stored before is still there
C16_Witness ==
    /\ sret.caller = "facebook_oauth_callback"
    /\ sret.changed /\ sret.writer = "failed" /\ sret.invocations = 1
    /\ bucket[sret.key] # None
    /\ ~LogicallyEqual(sret.data, json_loads(bucket[sret.key][1]))

\* C17: when the writer fails during a sync attempt, the error the attempt
\* fails with carries the computed digest of the candidate and its byte size.
C17_WriteErrorCarriesDigestAndSize ==
    [][(SyncAttempt /\ sret'.writer = "failed")
       => (/\ sret'.error # None
           /\ sret'.error[1].data_hash = Some(compute_data_hash(sret'.data))
           /\ sret'.error[1].data_size_bytes
                 = Some(len_encoded(json_dumps(sret'.data, FALSE))))]_vars

(***************************************************************************)
(* Key derivation properties                                               *)
(***************************************************************************)
\* C23: key derivation fails with a configuration error both when the
\* operator secret is absent and when it is the empty string; a key is
\* derived, and a store constructed, only for a non-empty secret.
C23_EmptyOrAbsentSecretFails ==
    \A o \in StorageObjects :
        /\ (built[o].pc # "unbuilt" /\ built[o].env \in {None, Some("")})
              => (built[o].pc = "raised" /\ built[o].fernet = None)
        /\ built[o].pc = "constructed"
              => (built[o].env # None /\ built[o].env[1] # "")

(***************************************************************************)
(* Route properties (requests interleaving at their storage steps)         *)
(***************************************************************************)
\* C25: in the OAuth callback, the tenant UUID under which credentials and
\* documents are stored (the value returned by get_or_create_session after
\* verify_session passed) equals the tenant UUID carried by the validated
\* state token, for every interleaving with other requests that present the
\* same session cookie.
C25_StoredUnderTokenTenant ==
    \A r \in DOMAIN reqs :
        (reqs[r].route = "oauth_callback" /\ reqs[r].pc = "done")
            => reqs[r].user_uuid = reqs[r].token_uuid

\* the requests that presented session id s, found it resolvable and returned
RotatedBy(s) ==
    {r \in DOMAIN reqs : /\ reqs[r].pc = "done" /\ reqs[r].rotating
                          /\ reqs[r].cookie = Some(s)}

\* C26: a session id is single-use also under concurrency: of two
\* get_or_create_session calls presenting the same resolvable session id and
\* interleaving at their storage steps, at most one returns the existing
\* tenant, so at most one successor session id is bound to that tenant for
\* that presented id.
C26_AtMostOneSuccessor ==
    \A s \in SessionIds :
        /\ Cardinality(RotatedBy(s)) <= 1
        /\ Cardinality({reqs[r].new_session_id : r \in RotatedBy(s)}) <= 1

WriteErrors ==
    {"Session database write failed after retries", "sqlite3.OperationalError"}

\* C29: get_or_create_session on a resolvable id deletes the old session
\* record before it writes the new one and does not roll back: once the
\* delete is done the old id does not resolve, at no point do both the old
\* id and the id generated by the call resolve, the new id resolves only
\* once its write succeeded, and if the write of the new session fails
\* (retries exhausted or another storage error) the call raises while the
\* old id no longer resolves and the id generated by the call does not
\* resolve.
C29_DeleteBeforeWriteNoRollback ==
    \A r \in DOMAIN reqs :
        reqs[r].rotating =>
            LET q == reqs[r]
                old == Resolves(sessions, q.cookie[1])
                new == IF q.new_session_id = None THEN None
                       ELSE Resolves(sessions, q.new_session_id[1])
            IN  /\ q.pc \in {"store_uuid", "done", "raised"} => old = None
                /\ ~(old # None /\ new # None)
                /\ q.pc \in {"clear_session", "store_uuid"} => new = None
                /\ q.pc = "raised"
                      => (q.raised # None /\ q.raised[1] \in WriteErrors /\ new = None)

\* C29 witness: a rotation has raised after three locked write attempts and
\* no session id resolves to its tenant any more
C29_Witness ==
    \E r \in DOMAIN reqs :
        /\ reqs[r].rotating /\ reqs[r].pc = "raised"
        /\ reqs[r].raised = Some("Session database write failed after retries")
        /\ reqs[r].cookie[1] \in rotated
        /\ \A s \in SessionIds : Resolves(sessions, s) # reqs[r].user_uuid

\* the fields of a state token, found without split
TokenFields(token) ==
    LET spans == FieldSpans(token, 1)
    IN  [f \in 1..Len(spans) |-> SubSeq(token, spans[f][1], spans[f][2])]

\* now <= expires_at and abs(now - issued_at) <= max_age
InTime(token, current_time, max_age) ==
    LET issued_at == int(TokenFields(token)[1])[1]
        expires_at == int(TokenFields(token)[2])[1]
    IN  /\ current_time <= expires_at
        /\ current_time - issued_at <= max_age
        /\ issued_at - current_time <= max_age

\* request r begins an oauth_callback in this step
CallbackBegins(r) ==
    /\ Finished(reqs[r]) /\ reqs'[r] # reqs[r]
    /\ reqs'[r].route = "oauth_callback"

\* C30: validate_state_token is stateless: it records no nonce and changes no
\* stored state, so a token handed out by the login route is accepted on
\* every call made while now <= expires_at and abs(now - issued_at) <=
\* max_age, whether or not an earlier callback has used it; a callback that
\* presents such a token is stopped by verify_session exactly when its
\* session cookie does not resolve to the tenant of the token.
C30_StatelessValidation ==
    /\ [][\A r \in DOMAIN reqs :
            CallbackBegins(r)
              => (/\ UNCHANGED <<sessionVars, tokenVars, storeVars, links, jar, spent>>
                  /\ reqs'[r].pc = "verify_session"
                        <=> InTime(reqs'[r].state, now, DefaultMaxAge)
                  /\ reqs'[r].pc = "verify_session"
                        => reqs'[r].token_uuid \in {Some(u) : u \in TenantIds})]_vars
    /\ [][\A r \in DOMAIN reqs :
            (reqs[r].pc = "verify_session" /\ reqs'[r] # reqs[r])
              => (reqs'[r].pc = "get_uuid"
                    <=> (/\ Truthy(reqs[r].cookie)
                         /\ Resolves(sessions, reqs[r].cookie[1]) = reqs[r].token_uuid))]_vars

\* C30 witness: a callback that presented a state token already used by a
\* completed callback has completed as well
C30_Witness ==
    \E r \in DOMAIN reqs :
        /\ reqs[r].route = "oauth_callback" /\ reqs[r].pc = "done"
        /\ reqs[r].replay
        /\ reqs[r].user_uuid = reqs[r].token_uuid

(***************************************************************************)
(* Concurrent sync attempts                                                *)
(***************************************************************************)
\* C27: at-most-once write under concurrency: when two sync attempts for the
\* same key carrying logically identical content overlap (lookup and write
\* being separate steps of each attempt), the writer is invoked at most once
\* in total.
C27_AtMostOnceUnderConcurrency ==
    \A c \in SyncCallers : \A o \in SyncCallers \ {c} :
        (/\ syncs[c].overlap
         /\ syncs[c].key = syncs[o].key
         /\ LogicallyEqual(syncs[c].data, syncs[o].data))
        => syncs[c].invocations + syncs[o].invocations <= 1

(***************************************************************************)
(* Credential keys                                                         *)
(***************************************************************************)
\* C28: every credential record written by an OAuth callback is keyed per
\* tenant or per entity, so a callback completed by tenant B never overwrites
\* a credential that a later webhook for tenant A's page reads: the access
\* token used to refresh the document stored under
\* users/<A>/facebook/data.json was obtained in a callback of tenant A.
C28_RefreshUsesOwnTenantsToken ==
    refresh # None
        => (/\ refresh[1].user_uuid = PageOwner(refresh[1].page_id)
            /\ refresh[1].user_access_token.granted_to = refresh[1].user_uuid)

====
